---- MODULE Spec2Model ----
(***************************************************************************)
(* The paint-shop notebook: the binary and the multi-vehicle heuristic,    *)
(* the MIQCP formulation (sets i, j, IJ, variable X, equations BlackOnce   *)
(* and MeetBlackDemand, objective obj) and its QUBO reformulation.         *)
(*                                                                         *)
(* The notebook's globals are the state; one action per cell, and one per  *)
(* iteration of a cell's loop.  Positions are numbered 1..n as in the      *)
(* records (i + 1, sequence[i]) of IJ.                                     *)
(***************************************************************************)
EXTENDS Integers, Sequences, FiniteSets, TLC

VARIABLES
    types,            \* set of car types (global `types`)
    sequence,         \* the cars in arrival order (global `sequence`)
    demand_white,     \* type -> number of white cars; <<>> in the binary data
    demand_black,     \* type -> number of black cars; <<>> in the binary data
    changes,          \* number of colour changes counted by the heuristic
    colors,           \* colour -> set of types (binary) or type -> remaining (multi)
    result,           \* colours painted so far, in sequence order
    current_color,    \* the colour the heuristic is painting with
    pos,              \* position of the next car of the running loop
    pc,               \* the cell that ran last / the loop that is running
    IJ,               \* records of the set IJ: pairs <<position, type>>
    black_demand,     \* records of the parameter black_demand
    paintshop,        \* the gp.Model that was built last
    X,                \* level of X per position after a solve
    objective_value,  \* objective value reported by the last solve
    qubo_matrix,      \* paintshop_qubo.qubo
    penalty,          \* the penalty the QUBO was built with
    qubo_value,       \* value of the QUBO at X after paintshop_qubo.solve()
    final_qubo,       \* the exported dictionary: key string -> coefficient
    reruns            \* number of times a build cell was executed again

vars == <<types, sequence, demand_white, demand_black, changes, colors, result,
          current_color, pos, pc, IJ, black_demand, paintshop, X,
          objective_value, qubo_matrix, penalty, qubo_value, final_qubo,
          reruns>>

heuristic_vars == <<changes, colors, result, current_color, pos>>
data_vars == <<types, sequence, demand_white, demand_black>>
model_vars == <<IJ, black_demand, paintshop, X, objective_value, qubo_matrix,
                penalty, qubo_value, final_qubo, reruns>>

-----------------------------------------------------------------------------
(* Bounds of the model *)

\* longest randomly drawn sequence (the notebook draws k = 128 and k = 6)
MaxLen == 4
\* largest number of types in a generated binary sequence
MaxTypes == 2
\* largest number of repeated executions of a build cell
MaxReruns == 1

-----------------------------------------------------------------------------
(* Data *)

Undefined == "undefined"

SequenceLiteral == <<"A", "D", "E", "B", "A", "F", "C", "B", "C", "D", "E", "F">>

TypesLiteral == {"A", "B", "C", "D", "E", "F"}

TypesQubo == {"A", "B"}

Range(s) == {s[p] : p \in DOMAIN s}

\* sequence.count(t)
count(seq, t) == Cardinality({p \in DOMAIN seq : seq[p] = t})

\* every type of the sequence arrives exactly twice
IsBinarySequence(seq) == \A t \in Range(seq) : count(seq, t) = 2

\* the sequences the binary cells are run on: the literal of the notebook and
\* every shorter sequence of the same shape
BinarySequences ==
    {SequenceLiteral} \cup
    UNION {{s \in [1..(2 * Cardinality(T)) -> T] :
                Range(s) = T /\ IsBinarySequence(s)} :
           T \in {U \in SUBSET TypesLiteral :
                      U # {} /\ Cardinality(U) <= MaxTypes}}

\* random.choices(list(types), k = n)
random_choices(T, n) == [1..n -> T]

\* demand_black = {t: sequence.count(t) - demand_white[t] for t in types}
DemandBlackBug(T, seq, white) == [t \in T |-> Len(seq) - white[t]]
DemandBlack(T, seq, white) == [t \in T |-> count(seq, t) - white[t]]

\* demand_white = {t: random.randint(0, sequence.count(t)) for t in types}
DemandWhiteChoicesUpToLen(T, seq) == [T -> 0..Len(seq)]
DemandWhiteChoices(T, seq) ==
    {w \in [T -> 0..Len(seq)] : \A t \in T : w[t] <= count(seq, t)}

\* the two demand lines of a data cell, after its sequence was drawn
DrawDemand ==
    /\ pc = "multi_sequence"
    /\ demand_white' \in DemandWhiteChoices(types, sequence)
    /\ demand_black' = DemandBlack(types, sequence, demand_white')
    /\ pc' = "multi_data"
    /\ UNCHANGED <<types, sequence, heuristic_vars, model_vars>>

-----------------------------------------------------------------------------
(* Heuristics *)

\* change color: white becomes black and black becomes white
OtherColorStuck(color) == color
OtherColor(color) == IF color = "white" THEN "black" ELSE "white"

\* binary cell: `car not in colors[current_color]`
CanPaintBinaryAlways(colors_dict, color, car) == TRUE
CanPaintBinary(colors_dict, color, car) == car \notin colors_dict[color]

\* binary cell: paint_car adds the type to the colour's set
paint_car_binaryForgets(colors_dict, color, car_type) == colors_dict
paint_car_binary(colors_dict, color, car_type) ==
    [colors_dict EXCEPT ![color] = @ \cup {car_type}]

\* multi cell: `colors[current_color][car] > 0`
CanPaintMultiOffByOne(colors_dict, color, car) == colors_dict[color][car] >= 0
CanPaintMulti(colors_dict, color, car) == colors_dict[color][car] > 0

\* multi cell: paint_car decrements the counter of the colour and the type
paint_car_multiOtherColor(colors_dict, color, car_type) ==
    [colors_dict EXCEPT ![OtherColor(color)][car_type] = @ - 1]
paint_car_multi(colors_dict, color, car_type) ==
    [colors_dict EXCEPT ![color][car_type] = @ - 1]

\* paint_car: result_list.append(color)
paint_car_resultOverwrites(result_list, color) == <<color>>
paint_car_result(result_list, color) == Append(result_list, color)

\* colors = {"white": dict(demand_white), "black": dict(demand_black)}: the
\* counters are copies, so the caller's mapping keeps its value when a counter
\* of the run is decremented
CallerDemandAliased(demand, counters) == counters
CallerDemand(demand, counters) == demand

\* changes = 0; colors = {"white": set(), "black": set()}; result = [];
\* current_color = "white"
StartBinary ==
    /\ pc = "binary_data"
    /\ changes' = 0
    /\ colors' = [white |-> {}, black |-> {}]
    /\ result' = <<>>
    /\ current_color' = "white"
    /\ pos' = 1
    /\ pc' = "binary_loop"
    /\ UNCHANGED <<data_vars, model_vars>>

\* one iteration of `for car in sequence` of the binary cell
StepBinary ==
    /\ pc = "binary_loop"
    /\ pos <= Len(sequence)
    /\ LET car == sequence[pos] IN
         IF CanPaintBinary(colors, current_color, car)
         THEN /\ colors' = paint_car_binary(colors, current_color, car)
              /\ result' = Append(result, current_color)
              /\ UNCHANGED <<changes, current_color>>
         ELSE /\ changes' = changes + 1
              /\ current_color' = OtherColor(current_color)
              /\ colors' = paint_car_binary(colors, OtherColor(current_color), car)
              /\ result' = Append(result, OtherColor(current_color))
    /\ pos' = pos + 1
    /\ pc' = IF pos = Len(sequence) THEN "binary_done" ELSE "binary_loop"
    /\ UNCHANGED <<data_vars, model_vars>>

\* changes = 0; colors = {"white": dict(demand_white), "black": dict(demand_black)};
\* result = []; current_color = "white"
StartMulti ==
    /\ pc = "multi_data"
    /\ changes' = 0
    /\ colors' = [white |-> demand_white, black |-> demand_black]
    /\ result' = <<>>
    /\ current_color' = "white"
    /\ pos' = 1
    /\ pc' = "multi_loop"
    /\ UNCHANGED <<data_vars, model_vars>>

\* one iteration of `for car in sequence` of the multi-vehicle cell
StepMulti ==
    /\ pc = "multi_loop"
    /\ pos <= Len(sequence)
    /\ LET car == sequence[pos] IN
         IF CanPaintMulti(colors, current_color, car)
         THEN /\ colors' = paint_car_multi(colors, current_color, car)
              /\ result' = paint_car_result(result, current_color)
              /\ UNCHANGED <<changes, current_color>>
         ELSE /\ changes' = changes + 1
              /\ current_color' = OtherColor(current_color)
              /\ colors' = paint_car_multi(colors, OtherColor(current_color), car)
              /\ result' = paint_car_result(result, OtherColor(current_color))
    /\ demand_white' = CallerDemand(demand_white, colors'.white)
    /\ demand_black' = CallerDemand(demand_black, colors'.black)
    /\ pos' = pos + 1
    /\ pc' = IF pos = Len(sequence) THEN "multi_done" ELSE "multi_loop"
    /\ UNCHANGED <<types, sequence, model_vars>>

\* the globals of the multi-vehicle cell after its initialisation and the
\* first k iterations of its loop over seq
RECURSIVE multi_run(_, _, _, _)
multi_run(seq, white, black, k) ==
    IF k = 0
    THEN [changes |-> 0,
          colors |-> [white |-> white, black |-> black],
          result |-> <<>>,
          current_color |-> "white"]
    ELSE LET s == multi_run(seq, white, black, k - 1)
             car == seq[k]
         IN  IF CanPaintMulti(s.colors, s.current_color, car)
             THEN [changes |-> s.changes,
                   colors |-> paint_car_multi(s.colors, s.current_color, car),
                   result |-> paint_car_result(s.result, s.current_color),
                   current_color |-> s.current_color]
             ELSE [changes |-> s.changes + 1,
                   colors |-> paint_car_multi(s.colors,
                                              OtherColor(s.current_color), car),
                   result |-> paint_car_result(s.result,
                                               OtherColor(s.current_color)),
                   current_color |-> OtherColor(s.current_color)]

-----------------------------------------------------------------------------
(* Mathematical model *)

RECURSIVE Sum(_, _)
\* the sum of f[p] over p in S
Sum(f, S) ==
    IF S = {} THEN 0
    ELSE LET p == CHOOSE q \in S : TRUE IN f[p] + Sum(f, S \ {p})

\* gamspy.math.sqr
sqrLinear(v) == v
sqr(v) == v * v

\* records=[(i + 1, sequence[i]) for i in range(len(sequence))]
IJRecordsAppended ==
    IJ \cup {<<Cardinality(IJ) + p, sequence[p]>> : p \in DOMAIN sequence}
IJRecords == {<<p, sequence[p]>> : p \in DOMAIN sequence}

\* records=[(type, demand) for type, demand in demand_black.items()]
BlackDemandRecords == demand_black

\* the sets i and j, filled from the records of IJ (domain_forwarding=True)
SetI(ij) == {r[1] : r \in ij}
SetJ(ij) == {r[2] : r \in ij}

\* the positions i with IJ[i, j], for a type j
PositionsOf(ij, t) == {r[1] : r \in {q \in ij : q[2] = t}}

\* BlackOnce[j] = gp.Sum(IJ[i, j], X[i]) == 1
BlackOnceLoose(ij, t) == [index |-> {}, rhs |-> 0]
BlackOnce(ij, t) == [index |-> PositionsOf(ij, t), rhs |-> 1]

\* MeetBlackDemand[j] = gp.Sum(IJ[i, j], X[i]) == black_demand[j]
MeetBlackDemandWhite(ij, demand, t) ==
    [index |-> PositionsOf(ij, t),
     rhs |-> Cardinality(PositionsOf(ij, t)) - demand[t]]
MeetBlackDemand(ij, demand, t) == [index |-> PositionsOf(ij, t), rhs |-> demand[t]]

\* the domain of the objective's sum: i.where[gp.Ord(i) < gp.Card(i)]
ObjDomainAll(I) == I
ObjDomain(I) == {p \in I : p < Cardinality(I)}

\* X[i + 1]; a lead past the last element of i is 0
LeadSame(x, p) == x[p]
Lead(x, p) == IF p + 1 \in DOMAIN x THEN x[p + 1] ELSE 0

\* obj = gp.Sum(i.where[gp.Ord(i) < gp.Card(i)], sqr(X[i] - X[i + 1])), at levels x
obj(D, x) == Sum([p \in D |-> sqr(x[p] - Lead(x, p))], D)

\* gp.Model(m, equations=[BlackOnce], sense=MIN, objective=obj)
ModelBlackOnce(ij) ==
    [variables |-> SetI(ij),
     equations |-> [t \in SetJ(ij) |-> BlackOnce(ij, t)],
     objective |-> ObjDomain(SetI(ij))]

\* gp.Model(m, equations=[MeetBlackDemand], sense=MIN, objective=obj)
ModelMeetBlackDemand(ij, demand) ==
    [variables |-> SetI(ij),
     equations |-> [t \in SetJ(ij) |-> MeetBlackDemand(ij, demand, t)],
     objective |-> ObjDomain(SetI(ij))]

\* the binary levels of X
Levels(model) == [model.variables -> {0, 1}]

\* left-hand side of an equation at levels x
Lhs(eq, x) == Sum([p \in eq.index |-> x[p]], eq.index)

\* amount by which levels x violate an equation
Violation(eq, x) ==
    IF Lhs(eq, x) >= eq.rhs THEN Lhs(eq, x) - eq.rhs ELSE eq.rhs - Lhs(eq, x)

\* x satisfies every equation of the model
Feasible(model, x) ==
    \A t \in DOMAIN model.equations : Lhs(model.equations[t], x) = model.equations[t].rhs

\* the solver's answer (model status OptimalGlobal): feasible levels of least objective
Optimal(model) ==
    {x \in Levels(model) :
        /\ Feasible(model, x)
        /\ \A y \in Levels(model) :
              Feasible(model, y) => obj(model.objective, x) <= obj(model.objective, y)}

\* number of positions whose colour differs from the one before
switches(assignment) ==
    Cardinality({p \in DOMAIN assignment :
                    p - 1 \in DOMAIN assignment /\ assignment[p] # assignment[p - 1]})

-----------------------------------------------------------------------------
(* QUBO *)

PenaltyNotebook == 10

PenaltyChoices == {1, PenaltyNotebook}

\* the levels that are 1 on S and 0 elsewhere
Unit(I, S) == [p \in I |-> IF p \in S THEN 1 ELSE 0]

\* coefficient of x_r * x_c in the objective, the squares expanded with
\* x_r^2 = x_r: the linear coefficient on the diagonal, half of the coefficient
\* of the pair in each of the two symmetric entries
ObjCoef(model, r, c) ==
    LET I == model.variables
        D == model.objective
    IN  IF r = c
        THEN obj(D, Unit(I, {r}))
        ELSE (obj(D, Unit(I, {r, c})) - obj(D, Unit(I, {r})) - obj(D, Unit(I, {c})))
             \div 2

\* coefficient of x_r * x_c in (sum of x over eq.index - eq.rhs)^2, with
\* x_r^2 = x_r; the constant eq.rhs^2 has no place in the matrix
PenCoef(eq, r, c) ==
    IF r \notin eq.index \/ c \notin eq.index THEN 0
    ELSE IF r = c THEN 1 - 2 * eq.rhs
    ELSE 1

\* Qubo(paintshop, penalty=...).qubo: the symmetric coefficient matrix
Qubo(model, weight) ==
    [r \in model.variables |->
        [c \in model.variables |->
            ObjCoef(model, r, c)
            + weight * Sum([t \in DOMAIN model.equations |->
                               PenCoef(model.equations[t], r, c)],
                           DOMAIN model.equations)]]

\* the quadratic form x^T Q x
QuboValue(Q, x) ==
    Sum([r \in DOMAIN Q |->
            Sum([c \in DOMAIN Q |-> Q[r][c] * x[r] * x[c]], DOMAIN Q)],
        DOMAIN Q)

\* the constant the expansion of the penalties leaves out
PenaltyConstant(model, weight) ==
    weight * Sum([t \in DOMAIN model.equations |->
                     model.equations[t].rhs * model.equations[t].rhs],
                 DOMAIN model.equations)

\* the index pairs of S in row-major order, as numpy lists them
RowMajor(S, n) ==
    [k \in 1..Cardinality(S) |->
        CHOOSE rc \in S :
            Cardinality({q \in S : q[1] * n + q[2] < rc[1] * n + rc[2]}) = k - 1]

\* zip(rows_idx, cols_idx) for rows_idx, cols_idx = np.triu_indices(n)
triu_indicesFull(n) == RowMajor((0..(n - 1)) \X (0..(n - 1)), n)
triu_indices(n) ==
    RowMajor({rc \in (0..(n - 1)) \X (0..(n - 1)) : rc[1] <= rc[2]}, n)

\* f"({r},)" if r == c else f"({r},{c})"
key(r, c) ==
    IF r = c
    THEN "(" \o ToString(r) \o ",)"
    ELSE "(" \o ToString(r) \o "," \o ToString(c) \o ")"

RECURSIVE final_qubo_loop(_, _, _)
\* final_qubo after the first k iterations of `for r, c, v in zip(...)`:
\* final_qubo[key] = v, with v = qubo_matrix[r, c], the later assignment to a
\* key replacing an earlier one; numpy counts from 0, the positions from 1
final_qubo_loop(Q, pairs, k) ==
    IF k = 0 THEN <<>>
    ELSE LET r == pairs[k][1]
             c == pairs[k][2]
         IN  (key(r, c) :> Q[r + 1][c + 1]) @@ final_qubo_loop(Q, pairs, k - 1)

\* the export of the matrix: rows_idx, cols_idx = np.triu_indices(shape[0]),
\* then the loop over all of them
export(Q) ==
    LET pairs == triu_indices(Cardinality(DOMAIN Q))
    IN  final_qubo_loop(Q, pairs, Len(pairs))

-----------------------------------------------------------------------------
(* Cells of the mathematical model *)

\* binary notebook: the sets, IJ, X, BlackOnce, obj and the model `paintshop`
BuildBinary ==
    /\ pc = "binary_done"
    /\ IJ' = IJRecords
    /\ paintshop' = ModelBlackOnce(IJ')
    /\ pc' = "binary_model"
    /\ UNCHANGED <<data_vars, heuristic_vars, black_demand, X, objective_value,
                   qubo_matrix, penalty, qubo_value, final_qubo, reruns>>

\* IJ.setRecords(...) and black_demand (created with its records, or setRecords)
setRecords ==
    /\ pc \in {"multi_data", "multi_done"}
    /\ IJ' = IJRecords
    /\ black_demand' = BlackDemandRecords
    /\ pc' = "multi_loaded"
    /\ UNCHANGED <<data_vars, heuristic_vars, paintshop, X, objective_value,
                   qubo_matrix, penalty, qubo_value, final_qubo, reruns>>

\* multi_paintshop / paintshop = gp.Model(m, equations=[MeetBlackDemand], ...)
BuildMulti ==
    /\ pc = "multi_loaded"
    /\ paintshop' = ModelMeetBlackDemand(IJ, black_demand)
    /\ pc' = "multi_model"
    /\ UNCHANGED <<data_vars, heuristic_vars, IJ, black_demand, X, objective_value,
                   qubo_matrix, penalty, qubo_value, final_qubo, reruns>>

\* paintshop.solve(...) / multi_paintshop.solve(...)
solve ==
    /\ pc \in {"binary_model", "multi_model"}
    /\ X' \in Optimal(paintshop)
    /\ objective_value' = obj(paintshop.objective, X')
    /\ pc' = IF pc = "binary_model" THEN "binary_solved" ELSE "multi_solved"
    /\ UNCHANGED <<data_vars, heuristic_vars, IJ, black_demand, paintshop,
                   qubo_matrix, penalty, qubo_value, final_qubo, reruns>>

\* paintshop_qubo = Qubo(paintshop, name="paintshop_qubo", penalty=10)
BuildQubo ==
    /\ pc = "multi_solved"
    /\ penalty' \in PenaltyChoices
    /\ qubo_matrix' = Qubo(paintshop, penalty')
    /\ pc' = "qubo"
    /\ UNCHANGED <<data_vars, heuristic_vars, IJ, black_demand, paintshop, X,
                   objective_value, qubo_value, final_qubo, reruns>>

\* paintshop_qubo.solve(): the sampler returns some binary vector; then
\* qubo_matrix = paintshop_qubo.qubo is exported to final_qubo
qubo_solve ==
    /\ pc = "qubo"
    /\ final_qubo' = export(qubo_matrix)
    /\ X' \in Levels(paintshop)
    /\ objective_value' = obj(paintshop.objective, X')
    /\ qubo_value' = QuboValue(qubo_matrix, X')
    /\ pc' = "qubo_solved"
    /\ UNCHANGED <<data_vars, heuristic_vars, IJ, black_demand, paintshop,
                   qubo_matrix, penalty, reruns>>

\* a build cell executed once more on the same notebook state
Rerun ==
    /\ reruns < MaxReruns
    /\ reruns' = reruns + 1
    /\ \/ /\ pc = "binary_model"
          /\ IJ' = IJRecords
          /\ paintshop' = ModelBlackOnce(IJ')
          /\ UNCHANGED <<black_demand, qubo_matrix, penalty>>
       \/ /\ pc = "multi_loaded"
          /\ IJ' = IJRecords
          /\ black_demand' = BlackDemandRecords
          /\ UNCHANGED <<paintshop, qubo_matrix, penalty>>
       \/ /\ pc = "multi_model"
          /\ paintshop' = ModelMeetBlackDemand(IJ, black_demand)
          /\ UNCHANGED <<IJ, black_demand, qubo_matrix, penalty>>
       \/ /\ pc = "qubo"
          /\ penalty' \in PenaltyChoices
          /\ qubo_matrix' = Qubo(paintshop, penalty')
          /\ UNCHANGED <<IJ, black_demand, paintshop>>
    /\ UNCHANGED <<data_vars, heuristic_vars, pc, X, objective_value, qubo_value,
                   final_qubo>>

\* the data lines of a later cell executed in the notebook that has run the
\* binary cells on the 12-car literal: types = set(["A", "B"]) and
\* sequence = random.choices(list(types), k = n); the container m, its sets and
\* every other global keep what the earlier cells left
NextInstance ==
    /\ pc = "binary_solved"
    /\ sequence = SequenceLiteral
    /\ types' = TypesQubo
    /\ \E n \in 1..MaxLen : sequence' \in random_choices(types', n)
    /\ demand_white' = <<>>
    /\ demand_black' = <<>>
    /\ pc' = "multi_sequence"
    /\ UNCHANGED <<heuristic_vars, model_vars>>

\* a heuristic cell executed once more, on the globals its last run left: the
\* first lines of the cell assign changes, colors, result and current_color
\* again and the loop starts over
RerunHeuristic ==
    /\ reruns < MaxReruns
    /\ reruns' = reruns + 1
    /\ \/ /\ pc = "binary_done"
          /\ colors' = [white |-> {}, black |-> {}]
          /\ pc' = "binary_loop"
       \/ /\ pc = "multi_done"
          /\ colors' = [white |-> demand_white, black |-> demand_black]
          /\ pc' = "multi_loop"
    /\ changes' = 0
    /\ result' = <<>>
    /\ current_color' = "white"
    /\ pos' = 1
    /\ UNCHANGED <<data_vars, IJ, black_demand, paintshop, X, objective_value,
                   qubo_matrix, penalty, qubo_value, final_qubo>>

-----------------------------------------------------------------------------

InitData ==
    \/ /\ sequence \in BinarySequences
       /\ types = Range(sequence)
       /\ demand_white = <<>>
       /\ demand_black = <<>>
       /\ pc = "binary_data"
    \/ /\ types = TypesQubo
       /\ \E n \in 1..MaxLen : sequence \in random_choices(types, n)
       /\ demand_white = <<>>
       /\ demand_black = <<>>
       /\ pc = "multi_sequence"

Init ==
    /\ InitData
    /\ changes = Undefined
    /\ colors = Undefined
    /\ result = Undefined
    /\ current_color = Undefined
    /\ pos = Undefined
    /\ IJ = {}
    /\ black_demand = <<>>
    /\ paintshop = Undefined
    /\ X = <<>>
    /\ objective_value = Undefined
    /\ qubo_matrix = Undefined
    /\ penalty = Undefined
    /\ qubo_value = Undefined
    /\ final_qubo = <<>>
    /\ reruns = 0

Next ==
    \/ DrawDemand
    \/ StartBinary
    \/ StepBinary
    \/ StartMulti
    \/ StepMulti
    \/ BuildBinary
    \/ setRecords
    \/ BuildMulti
    \/ solve
    \/ BuildQubo
    \/ qubo_solve
    \/ Rerun
    \/ RerunHeuristic
    \/ NextInstance

Spec == Init /\ [][Next]_vars

-----------------------------------------------------------------------------
(* Properties *)

\* number of positions of type t painted `color` in a colouring
Painted(seq, colouring, t, color) ==
    Cardinality({p \in DOMAIN colouring : seq[p] = t /\ colouring[p] = color})

\* C1: when the multi-vehicle heuristic has finished, every type has exactly
\* demand_black[t] cars painted black and demand_white[t] cars painted white.
DemandConservation ==
    pc = "multi_done" =>
        \A t \in types :
            /\ Painted(sequence, result, t, "black") = demand_black[t]
            /\ Painted(sequence, result, t, "white") = demand_white[t]

DemandConservationWitness ==
    /\ pc = "multi_done"
    /\ changes >= 2
    /\ \E t \in types : demand_black[t] >= 1 /\ demand_white[t] >= 1

\* the 0/1 colourings of a sequence that paint one car of each type black
OneBlackPerType(seq) ==
    {x \in [DOMAIN seq -> {0, 1}] :
        \A t \in Range(seq) : Painted(seq, x, t, 1) = 1}

\* least number of switches of a colouring with one black car per type
MinSwitches(seq) ==
    CHOOSE m \in 0..Len(seq) :
        /\ \E x \in OneBlackPerType(seq) : switches(x) = m
        /\ \A x \in OneBlackPerType(seq) : switches(x) >= m

\* C2 as stated: when every type arrives exactly twice, the colouring of the
\* binary heuristic has the least possible number of switches.
BinaryOptimality ==
    pc = "binary_done" => switches(result) = MinSwitches(sequence)

\* C2, amended: the colouring of the binary heuristic paints exactly one car of
\* each type black and one white, so its number of switches is at least the
\* least possible number; it need not be equal to it.
BinaryFeasibleNotBelowOptimum ==
    pc = "binary_done" =>
        /\ \A t \in Range(sequence) :
              /\ Painted(sequence, result, t, "black") = 1
              /\ Painted(sequence, result, t, "white") = 1
        /\ switches(result) >= MinSwitches(sequence)

BinaryAboveOptimumWitness ==
    /\ pc = "binary_done"
    /\ switches(result) > MinSwitches(sequence)

\* C3: for the levels X of any solve, the value of the quadratic objective
\* equals the number of positions whose level differs from the one before.
ObjectiveEquivalence ==
    pc \in {"binary_solved", "multi_solved", "qubo_solved"} =>
        objective_value = switches(X)

ObjectiveEquivalenceWitness ==
    /\ pc = "qubo_solved"
    /\ Len(X) >= 3
    /\ objective_value >= 2
    /\ X[Len(X)] = 1

ScenarioHeuristic ==
    (pc = "binary_done" /\ sequence = SequenceLiteral) =>
        /\ result = <<"white", "white", "white", "white", "black", "black",
                      "black", "black", "white", "black", "black", "white">>
        /\ changes = 4

ScenarioHeuristicWitness ==
    /\ pc = "binary_done"
    /\ sequence = SequenceLiteral
    /\ Len(result) = Len(SequenceLiteral)
    /\ changes = 4

\* C8: on the sequence A D E B A F C B C D E F with one black car per type the
\* least objective value is 2: the solve reports 2 and no levels that satisfy
\* the equations have fewer than 2 switches.
ScenarioOptimum ==
    (pc = "binary_solved" /\ sequence = SequenceLiteral) =>
        /\ objective_value = 2
        /\ \A x \in Levels(paintshop) : Feasible(paintshop, x) => switches(x) >= 2

ScenarioOptimumWitness ==
    /\ pc = "binary_solved"
    /\ sequence = SequenceLiteral
    /\ X = <<0, 1, 1, 1, 1, 1, 1, 0, 0, 0, 0, 0>>
    /\ objective_value = 2

\* a demand has been constructed
DemandConstructed == pc \notin {"multi_sequence"} /\ DOMAIN demand_black # {}

TypeDemandInvariant ==
    DemandConstructed =>
        \A t \in types :
            /\ demand_white[t] >= 0
            /\ demand_black[t] >= 0
            /\ demand_white[t] + demand_black[t] = count(sequence, t)

TypeDemandWitness ==
    /\ pc = "multi_data"
    /\ \E t \in types : demand_white[t] >= 1 /\ demand_black[t] >= 1
    /\ \E t \in types : demand_white[t] = count(sequence, t)

\* C14: no step of the multi-vehicle heuristic, from its initialisation to its
\* last iteration, changes the sequence, the type set or the caller's
\* demand_white and demand_black; only the counters in `colors` change.
ReadOnlyInputs ==
    [][(pc \in {"multi_data", "multi_loop"}) =>
          (sequence' = sequence /\ types' = types /\
           demand_white' = demand_white /\ demand_black' = demand_black)]_vars

ReadOnlyInputsWitness ==
    /\ pc = "multi_done"
    /\ Len(result) >= 2
    /\ colors.white # demand_white
    /\ colors.black # demand_black

MeetsDemand(x) ==
    \A t \in types : Painted(sequence, x, t, 1) = demand_black[t]

\* least number of switches of levels that meet the demand
ConstrainedOptimum ==
    LET meeting == {x \in [DOMAIN sequence -> {0, 1}] : MeetsDemand(x)}
    IN  CHOOSE m \in 0..Len(sequence) :
            /\ \E x \in meeting : switches(x) = m
            /\ \A x \in meeting : switches(x) >= m

\* X has the least QUBO value of all binary levels
IsQuboMinimiser ==
    \A y \in Levels(paintshop) : QuboValue(qubo_matrix, y) >= qubo_value

\* C16: when the penalty is larger than n - 1, levels that minimise the QUBO
\* paint demand_black[t] cars of every type black, and their number of
\* switches is the least of all levels that meet the demand.
PenaltySoundness ==
    (pc = "qubo_solved" /\ penalty > Len(sequence) - 1 /\ IsQuboMinimiser) =>
        /\ MeetsDemand(X)
        /\ switches(X) = ConstrainedOptimum

PenaltySoundnessWitness ==
    /\ pc = "qubo_solved"
    /\ penalty = PenaltyNotebook
    /\ Len(sequence) >= 3
    /\ IsQuboMinimiser
    /\ switches(X) >= 1
    /\ \E t \in types : demand_black[t] >= 1 /\ demand_white[t] >= 1

\* the demand mapping of a colour
DemandOf(color) == IF color = "white" THEN demand_white ELSE demand_black

\* what is left of the demand of `color` for type t before position p is
\* painted, given the colours painted so far
Remaining(color, t, p) ==
    DemandOf(color)[t]
    - Cardinality({q \in DOMAIN result :
                      q < p /\ sequence[q] = t /\ result[q] = color})

\* C17: the multi-vehicle heuristic starts with white; every position gets
\* the colour in use before it (white for the first position) exactly when
\* that colour has demand left for its type, and the other colour otherwise;
\* the colour in use afterwards is the colour painted last.
GreedyStepRule ==
    pc \in {"multi_loop", "multi_done"} =>
        /\ result = <<>> => current_color = "white"
        /\ result # <<>> => current_color = result[Len(result)]
        /\ \A p \in DOMAIN result :
              LET before == IF p = 1 THEN "white" ELSE result[p - 1]
              IN  /\ result[p] = before <=> Remaining(before, sequence[p], p) > 0
                  /\ result[p] # before => result[p] = OtherColor(before)

GreedyStepRuleWitness ==
    /\ pc = "multi_done"
    /\ Len(result) >= 3
    /\ demand_white[sequence[1]] >= 1
    /\ result[1] = "white"
    /\ \E p \in DOMAIN result :
          p > 1 /\ result[p] # result[p - 1]
               /\ Remaining(result[p - 1], sequence[p], p) = 0

\* number of cars of type t from position p on
NotYetPainted(t, p) ==
    Cardinality({q \in DOMAIN sequence : q >= p /\ sequence[q] = t})

\* C18: before every iteration of the multi-vehicle loop and at its end, no
\* counter is negative and the two counters of a type add up to its cars not
\* yet painted; so the type of the next car has a counter above 0, and at the
\* end all counters are 0.
CapacityInvariant ==
    pc \in {"multi_loop", "multi_done"} =>
        /\ \A t \in types :
              /\ colors.white[t] >= 0
              /\ colors.black[t] >= 0
              /\ colors.white[t] + colors.black[t] = NotYetPainted(t, pos)
        /\ pc = "multi_loop" =>
              ~(colors.white[sequence[pos]] = 0 /\ colors.black[sequence[pos]] = 0)
        /\ pc = "multi_done" =>
              \A t \in types : colors.white[t] = 0 /\ colors.black[t] = 0

CapacityInvariantWitness ==
    /\ pc = "multi_loop"
    /\ pos >= 2
    /\ colors[current_color][sequence[pos]] = 0
    /\ colors[OtherColor(current_color)][sequence[pos]] >= 1

\* C19: when the multi-vehicle heuristic has finished, the number of changes
\* it reports equals the number of positions of its result whose colour
\* differs from the one before.
ReportedEqualsEvaluated ==
    pc = "multi_done" => changes = switches(result)

\* the implicit demand of the binary case: one car of every type
OnePerType == [t \in types |-> 1]

\* C20: after every iteration of the binary heuristic, its result, number of
\* changes and colour in use are those of the multi-vehicle heuristic run on
\* the same sequence with demand one white and one black per type, and a type
\* is in a colour's set exactly when the counter of that colour is used up.
BinaryIsSpecialCase ==
    pc \in {"binary_loop", "binary_done"} =>
        LET m == multi_run(sequence, OnePerType, OnePerType, pos - 1)
        IN  /\ result = m.result
            /\ changes = m.changes
            /\ current_color = m.current_color
            /\ \A c \in {"white", "black"} : \A t \in types :
                  t \in colors[c] <=> m.colors[c][t] = 0

BinaryIsSpecialCaseWitness ==
    /\ pc = "binary_done"
    /\ sequence = SequenceLiteral
    /\ multi_run(sequence, OnePerType, OnePerType, Len(sequence)).changes = 4
    /\ result = multi_run(sequence, OnePerType, OnePerType, Len(sequence)).result

\* a heuristic cell starts: its loop is entered from outside the loop
HeuristicStarts ==
    /\ pc \notin {"binary_loop", "multi_loop"}
    /\ pc' \in {"binary_loop", "multi_loop"}

\* C21: every run of a heuristic cell, the first one and one that follows an
\* earlier run, starts with changes 0, an empty result, colour white and
\* counters equal to the demand (empty sets in the binary cell); and every run,
\* the first and the repeated one, ends with the colouring and the number of
\* changes that are a function of the sequence and the demand alone, so two
\* runs in a row on the same data return the same.
NoStateCarried ==
    [][/\ HeuristicStarts =>
              /\ changes' = 0
              /\ result' = <<>>
              /\ current_color' = "white"
              /\ pos' = 1
              /\ pc' = "multi_loop" =>
                    colors' = [white |-> demand_white', black |-> demand_black']
              /\ pc' = "binary_loop" => colors' = [white |-> {}, black |-> {}]
       /\ pc' = "multi_done" =>
              LET m == multi_run(sequence', demand_white', demand_black',
                                 Len(sequence'))
              IN  result' = m.result /\ changes' = m.changes
       /\ pc' = "binary_done" =>
              LET b == multi_run(sequence', OnePerType, OnePerType, Len(sequence'))
              IN  result' = b.result /\ changes' = b.changes]_vars

\* a second run of the multi-vehicle cell has finished, after a first run that
\* left a non-empty result, changes and used-up counters behind and that had
\* itself started on what the binary cells left for the 12-car literal
NoStateCarriedWitness ==
    /\ pc = "multi_done"
    /\ reruns = 1
    /\ Len(X) = Len(SequenceLiteral)
    /\ Len(result) >= 3
    /\ changes >= 2
    /\ colors # [white |-> demand_white, black |-> demand_black]

\* a model has been built for the sequence and demand of the current cell
ModelBuilt ==
    pc \in {"binary_model", "binary_solved", "multi_model", "multi_solved",
            "qubo", "qubo_solved"}

ExportIndices == 0..(Cardinality(DOMAIN qubo_matrix) - 1)

\* C23: the exported dictionary of an n x n matrix has the key "(r,)" for every
\* r in 0..n-1 and the key "(r,c)" for every r < c, and no other key: none
\* with r > c, none for a diagonal pair written "(r,r)"; the keys are distinct,
\* n(n+1)/2 in all.
ExportKeys ==
    pc = "qubo_solved" =>
        LET n == Cardinality(DOMAIN qubo_matrix)
        IN  /\ DOMAIN final_qubo =
                   {"(" \o ToString(r) \o ",)" : r \in ExportIndices} \cup
                   {"(" \o ToString(q[1]) \o "," \o ToString(q[2]) \o ")" :
                       q \in {rc \in ExportIndices \X ExportIndices : rc[1] < rc[2]}}
            /\ Cardinality(DOMAIN final_qubo) = (n * (n + 1)) \div 2
            /\ \A r, c \in ExportIndices :
                  r >= c => ("(" \o ToString(r) \o "," \o ToString(c) \o ")")
                               \notin DOMAIN final_qubo
            /\ n = 1 => DOMAIN final_qubo = {"(0,)"}
            /\ n = 2 => DOMAIN final_qubo = {"(0,)", "(0,1)", "(1,)"}
            /\ n = 3 => DOMAIN final_qubo =
                            {"(0,)", "(0,1)", "(0,2)", "(1,)", "(1,2)", "(2,)"}

ExportKeysWitness ==
    /\ pc = "qubo_solved"
    /\ Cardinality(DOMAIN qubo_matrix) >= 3
    /\ {"(2,)", "(1,2)", "(0,2)"} \subseteq DOMAIN final_qubo
    /\ final_qubo["(0,1)"] # 0

\* the value of the exported dictionary d at levels x: coefficient * x_r for
\* the keys "(r,)", coefficient * x_r * x_c for the keys "(r,c)"
ExportedValue(d, x) ==
    LET idx == 0..(Len(x) - 1)
        pairs == {rc \in idx \X idx : rc[1] < rc[2] /\ key(rc[1], rc[2]) \in DOMAIN d}
    IN  Sum([r \in idx |-> d[key(r, r)] * x[r + 1]], idx)
        + Sum([rc \in pairs |-> d[key(rc[1], rc[2])] * x[rc[1] + 1] * x[rc[2] + 1]],
              pairs)

\* Q[r][c] = Q[c][r] for all r, c
Symmetric(Q) == \A r, c \in DOMAIN Q : Q[r][c] = Q[c][r]

\* C24: for a symmetric matrix, the value computed from the exported
\* dictionary at the levels X equals the quadratic form of the full matrix.
ExportPreservesEnergy ==
    (pc = "qubo_solved" /\ Symmetric(qubo_matrix)) =>
        ExportedValue(final_qubo, X) = QuboValue(qubo_matrix, X)

\* C25: every iteration of the multi-vehicle loop appends one colour, the
\* colour in use after it, to the result and leaves the colours of the earlier
\* positions as they were; it takes 1 from the counter of that colour and the
\* type of the car at the position and leaves every other counter as it was.
NoBacktracking ==
    [][(pc = "multi_loop") =>
          LET painted == result'[Len(result')]
              car == sequence[pos]
          IN  /\ Len(result') = Len(result) + 1
              /\ \A p \in DOMAIN result : result'[p] = result[p]
              /\ painted = current_color'
              /\ colors'[painted][car] = colors[painted][car] - 1
              /\ \A c \in {"white", "black"} : \A t \in types :
                    (c # painted \/ t # car) => colors'[c][t] = colors[c][t]
              /\ pos' = pos + 1]_vars

\* the loop is past two positions painted in different colours, and a counter
\* of a type with white demand has not been touched
NoBacktrackingWitness ==
    /\ pc = "multi_loop"
    /\ pos >= 3
    /\ result[1] # result[2]
    /\ \E t \in types : demand_white[t] >= 1 /\ colors.white[t] = demand_white[t]

\* the multi-vehicle loop is in the state multi_run computes
MultiRunAgrees ==
    pc \in {"multi_loop", "multi_done"} =>
        multi_run(sequence, demand_white, demand_black, pos - 1)
            = [changes |-> changes, colors |-> colors, result |-> result,
               current_color |-> current_color]


====
